---- MODULE Spec2Model ----
(***************************************************************************)
(* Model of package util (functions/internal/util/util.go) of the          *)
(* covidwatch cloud functions: the status-error taxonomy, the conversions  *)
(* of store and JSON errors, the injectable clock, the HTTPS check, and    *)
(* RunTransaction together with the report-submission transaction that     *)
(* runs inside it.                                                         *)
(***************************************************************************)
EXTENDS Integers, Sequences, FiniteSets, TLC

VARIABLES
    challenges,       \* the "challenges" collection: nonce -> document
    pending_reports,  \* the "pending_reports" collection: sequence of documents
    sysTime,          \* the system clock, time.Now(), in nanoseconds
    pc,               \* per request: position in RunTransaction
    call,             \* per request: its context (fake clock) and body
    txn,              \* per request: the transaction of the current attempt
    result,           \* per request: what RunTransaction returned
    hist,             \* per request: facts recorded when the call was made
    op,               \* the util operation applied directly, "none" before
    arg,              \* its argument
    ret               \* its return value

vars == <<challenges, pending_reports, sysTime, pc, call, txn, result, hist,
          op, arg, ret>>

txnVars == <<challenges, pending_reports, sysTime, pc, call, txn, result, hist>>
utilVars == <<op, arg, ret>>

-----------------------------------------------------------------------------
(* Go error values.                                                        *)

\* The nil error / nil StatusError.
Nil == [tag |-> "nil"]

\* http.StatusXxx as used by the package.
StatusBadRequest == 400
StatusMethodNotAllowed == 405
StatusTeapot == 418
StatusInternalServerError == 500
StatusNotImplemented == 501

\* An error made by errors.New / fmt.Errorf.
ErrorsNew(text) == [tag |-> "errorString", text |-> text]

\* An error of the grpc status package, as the firestore client returns.
GrpcError(code) == [tag |-> "grpc", code |-> code, text |-> "rpc error: " \o code]

\* An error of package encoding/json, or one of io's two EOF values.
TypedError(tag) == [tag |-> tag, text |-> tag]

\* type statusError struct { code int; message string; error }
statusError(code, message, err) ==
    [tag |-> "statusError", code |-> code, message |-> message, error |-> err]

\* Whether a Go error value implements StatusError.
IsStatusError(err) == err.tag = "statusError"

\* err.Error(); statusError promotes the Error method of its embedded error.
RECURSIVE ErrorString(_)
ErrorString(err) ==
    IF err.tag = "statusError" THEN ErrorString(err.error) ELSE err.text

HTTPStatusCode(e) == e.code

Message(e) ==
    IF e.message # "" THEN e.message ELSE ErrorString(e.error)

\* What the HTTP boundary shows the caller of a StatusError.
CallerView(e) == [code |-> HTTPStatusCode(e), message |-> Message(e)]

NewInternalServerErrorLeaky(err) ==
    statusError(StatusInternalServerError, "", err)

NewInternalServerError(err) ==
    statusError(StatusInternalServerError, "internal server error", err)

NewBadRequestError(err) == statusError(StatusBadRequest, "", err)

NewMethodNotAllowedErrorAsNotFound(method) ==
    statusError(404, "", ErrorsNew("unsupported method: " \o method))

NewMethodNotAllowedError(method) ==
    statusError(StatusMethodNotAllowed, "",
                ErrorsNew("unsupported method: " \o method))

NewNotImplementedError ==
    statusError(StatusNotImplemented, "", ErrorsNew("not implemented"))

NotFoundError == NewBadRequestError(ErrorsNew("not found"))

newStatusError(code, err) == statusError(code, "", err)

\* status.Code(err) of google.golang.org/grpc/status.
StatusCode(err) ==
    IF err = Nil THEN "OK"
    ELSE IF err.tag = "grpc" THEN err.code
    ELSE "Unknown"

FirestoreToStatusErrorNoPassThrough(err) ==
    IF StatusCode(err) = "NotFound" THEN NotFoundError
    ELSE NewInternalServerError(err)

FirestoreToStatusError(err) ==
    IF IsStatusError(err) THEN err
    ELSE IF StatusCode(err) = "NotFound" THEN NotFoundError
    ELSE NewInternalServerError(err)

\* The error types of encoding/json that count as bad requests.
JSONErrorTypes ==
    {"json.MarshalerError", "json.SyntaxError", "json.UnmarshalFieldError",
     "json.UnmarshalTypeError", "json.UnsupportedTypeError",
     "json.UnsupportedValueError"}

JSONToStatusError(err) ==
    IF IsStatusError(err) THEN err
    ELSE IF err.tag \in JSONErrorTypes THEN NewBadRequestError(err)
    ELSE IF err.tag = "io.EOF" \/ err.tag = "io.ErrUnexpectedEOF"
         THEN NewBadRequestError(err)
    ELSE NewInternalServerError(err)

-----------------------------------------------------------------------------
(* Contexts and the injectable clock.                                      *)

\* A context.Context is the chain of the values attached to it, innermost
\* last; ctx.Value(key) is the innermost value stored under key, or nil.
Background == <<>>

WithValue(parent, key, val) == Append(parent, [key |-> key, val |-> val])

RECURSIVE Value(_, _)
Value(ctx, key) ==
    IF ctx = <<>> THEN Nil
    ELSE IF ctx[Len(ctx)].key = key THEN ctx[Len(ctx)].val
    ELSE Value(SubSeq(ctx, 1, Len(ctx) - 1), key)

WithTestFirestore(parent, store) ==
    WithValue(parent, "testFirestoreContextKey", store)

\* The stored value is a pointer to a copy of the duration.
WithFakeClock(parent, time) ==
    WithValue(parent, "fakeClockKey", [tag |-> "Duration", d |-> time])

\* time.Unix(sec, nsec) as nanoseconds since the epoch.
Unix(sec, nsec) == sec * 1000000000 + nsec

NowIgnoringFakeClock(ctx, systemNow) == systemNow

\* Now(ctx), where systemNow is what time.Now() returns at the call.
Now(ctx, systemNow) ==
    LET t == Value(ctx, "fakeClockKey")
    IN  IF t = Nil THEN systemNow ELSE Unix(0, t.d)

-----------------------------------------------------------------------------
(* Strings whose characters matter are sequences of characters.            *)

\* strings.ToLower on one character.
ToLowerChar(c) ==
    CASE c = "P" -> "p" [] c = "R" -> "r" [] c = "O" -> "o" [] c = "T" -> "t"
      [] c = "H" -> "h" [] c = "S" -> "s" [] OTHER -> c

ToLower(s) == [i \in 1..Len(s) |-> ToLowerChar(s[i])]

\* Whether character c matches the pattern character q under (?i): Go's
\* regexp folds case with unicode.SimpleFold, whose orbit of "s" is
\* s, S and the long s (U+017F), which strings.ToLower leaves as it is.
FoldMatchesChar(c, q) ==
    \/ ToLowerChar(c) = q
    \/ (q = "s" /\ c = "long-s")

\* Whether the literal lit (in lower case) matches s at position i under (?i).
FoldPrefixAt(s, i, lit) ==
    /\ i + Len(lit) - 1 <= Len(s)
    /\ \A k \in 1..Len(lit) : FoldMatchesChar(s[i + k - 1], lit[k])

StrProtoEq == <<"p", "r", "o", "t", "o", "=">>
StrHttps == <<"h", "t", "t", "p", "s">>
StrHttp == <<"h", "t", "t", "p">>

\* protoRegex.FindStringSubmatch(s) for (?i)(?:proto=)(https|http): the
\* leftmost match, the first alternative that matches preferred; the result
\* is <<whole match, capture group 1>>, or the empty slice when nothing
\* matches.
RECURSIVE FindFrom(_, _)
FindFrom(s, i) ==
    IF i > Len(s) THEN <<>>
    ELSE IF FoldPrefixAt(s, i, StrProtoEq) /\ FoldPrefixAt(s, i + 6, StrHttps)
         THEN <<SubSeq(s, i, i + 10), SubSeq(s, i + 6, i + 10)>>
    ELSE IF FoldPrefixAt(s, i, StrProtoEq) /\ FoldPrefixAt(s, i + 6, StrHttp)
         THEN <<SubSeq(s, i, i + 9), SubSeq(s, i + 6, i + 9)>>
    ELSE FindFrom(s, i + 1)

FindStringSubmatch(s) == FindFrom(s, 1)

\* r.Header.Get(key): the first value stored under key, "" when none is.
HeaderGet(header, key) ==
    IF Len(header[key]) = 0 THEN <<>> ELSE header[key][1]

TeapotError ==
    newStatusError(StatusTeapot,
        ErrorsNew("unsupported protocol HTTP; only HTTPS is supported"))

\* The check at the end of checkHTTPS.
requireHTTPS(scheme) ==
    IF scheme # StrHttps THEN TeapotError ELSE Nil

checkHTTPSPreferForwarded(header) ==
    LET xfp == HeaderGet(header, "X-Forwarded-Proto")
        match == FindStringSubmatch(HeaderGet(header, "Forwarded"))
    IN  IF Len(match) = 2 THEN requireHTTPS(ToLower(match[2]))
        ELSE requireHTTPS(ToLower(xfp))

checkHTTPS(header) ==
    LET xfp == HeaderGet(header, "X-Forwarded-Proto")
        fwd == HeaderGet(header, "Forwarded")
        match == FindStringSubmatch(fwd)
    IN  IF xfp # <<>> THEN requireHTTPS(ToLower(xfp))
        ELSE IF fwd # <<>>
             THEN IF Len(match) = 2 THEN requireHTTPS(ToLower(match[2]))
                  ELSE IF Len(match) > 2
                       THEN NewInternalServerError(
                                ErrorsNew("Header 'forward' has more than 2 elements"))
                  ELSE requireHTTPS(<<>>)
        ELSE requireHTTPS(<<>>)

-----------------------------------------------------------------------------
(* Context construction and request validation.                            *)

\* NewContext(w, r). env is the value of FIRESTORE_EMULATOR_HOST; out names
\* the errors, if any, of store.clientOption() and of firestore.NewClient.
NewContext(r, env, out) ==
    LET ctx == r.ctx
        testFirestore == Value(ctx, "testFirestoreContextKey")
        isTest == env # "" \/ testFirestore # Nil
        projectID == IF isTest
                     THEN IF testFirestore # Nil THEN testFirestore.projectID
                          ELSE "test"
                     ELSE "*detect-project-id*"
    IN  IF isTest /\ testFirestore # Nil /\ out.clientOption # Nil
        THEN [context |-> Nil, err |-> NewInternalServerError(out.clientOption)]
        ELSE IF out.newClient # Nil
        THEN [context |-> Nil, err |-> NewInternalServerError(out.newClient)]
        ELSE [context |-> [req |-> r, client |-> projectID, ctx |-> ctx],
              err |-> Nil]

ValidateRequestMethodNamingExpected(c, method) ==
    LET m == c.req.Method
    IN  IF m # method THEN NewMethodNotAllowedError(method) ELSE Nil

\* c.ValidateRequestMethod(method, _).
ValidateRequestMethod(c, method) ==
    LET m == c.req.Method
    IN  IF m # method THEN NewMethodNotAllowedError(m) ELSE Nil


-----------------------------------------------------------------------------
(* Bounds of the model.                                                    *)

MaxTime == 1         \* the system clock and the fake clocks run 0..MaxTime
MaxAttempts == 2     \* attempts of one firestore transaction
MaxSegments == 2     \* segments a Forwarded header value is made of
ValidityWindow == 0  \* expires_at - issued_at, in ticks of the clock
WorkFactor == 1      \* the configured difficulty
HashBits == 2        \* width of the proof-of-work digest

Requests == {"r1", "r2"}
Nonces == {1}            \* the nonce the issuer may draw
Times == 0..MaxTime
SolutionNonces == {0, 1}
ReportData == {"x"}

\* The clock a request's context carries: the system's, or a fake one.
Clocks == {[fake |-> FALSE, d |-> 0]} \cup {[fake |-> TRUE, d |-> d] : d \in Times}

\* What a clock reads when the system time is systemNow.
ClockReading(c, systemNow) == IF c.fake THEN c.d ELSE systemNow

\* The context a request arrives with.
ContextOf(c) ==
    IF c.fake THEN WithFakeClock(Background, c.d) ELSE Background

-----------------------------------------------------------------------------
(* The store, and the transaction function of report submission.           *)

Unavailable == GrpcError("Unavailable")
Canceled == GrpcError("Canceled")
Aborted == GrpcError("Aborted")

\* What the environment may do to a transaction besides answering it: the
\* store is unavailable, the request's context is cancelled, the store
\* aborts a commit for contention of its own.
Faults == {Unavailable, Canceled, Aborted}
NoFaults == {}

AlreadyUsedError == NewBadRequestError(ErrorsNew("challenge already used"))
ExpiredError == NewBadRequestError(ErrorsNew("challenge expired"))
InvalidProofError == NewBadRequestError(ErrorsNew("invalid proof of work"))

\* Hash(challenge.nonce || solution.nonce), a digest of HashBits bits.
Digest(cn, sn) == (5 * cn + 3 * sn + 1) % (2 ^ HashBits)

\* Verify(challenge, solution): the digest is below 2^(bitlength - work_factor).
Verify(challenge, sn) ==
    /\ challenge.work_factor > 0
    /\ challenge.work_factor <= HashBits
    /\ Digest(challenge.nonce, sn) < 2 ^ (HashBits - challenge.work_factor)

NoTxn == [attempt |-> 0, snap |-> Nil, writes |-> <<>>]

\* The error RunTransaction's type switch turns the transaction's error into.
RunTransactionReturnSwallow(err) ==
    IF IsStatusError(err) THEN err ELSE Nil

RunTransactionReturnWrapAll(err) ==
    IF err = Nil THEN Nil ELSE NewInternalServerError(err)

RunTransactionReturnNilOnBadRequest(err) ==
    IF err = Nil \/ (IsStatusError(err) /\ err.code = StatusBadRequest) THEN Nil
    ELSE IF IsStatusError(err) THEN err
    ELSE NewInternalServerError(err)

RunTransactionReturn(err) ==
    IF err = Nil THEN Nil
    ELSE IF IsStatusError(err) THEN err
    ELSE NewInternalServerError(err)

\* c.RunTransaction returned err, its transaction over: RunTransaction
\* returns to its caller.
Return(r, err, committed) ==
    /\ pc' = [pc EXCEPT ![r] = "done"]
    /\ txn' = [txn EXCEPT ![r].snap = Nil, ![r].writes = <<>>]
    /\ result' = [result EXCEPT ![r] = RunTransactionReturn(err)]
    /\ hist' = [hist EXCEPT ![r].txnErr = err, ![r].committed = committed]

\* The challenges a committed transaction leaves: for each document the
\* last buffered write to it.
ApplyChallengeWrites(ch, writes) ==
    [n \in Nonces |->
        IF \E i \in 1..Len(writes) : writes[i].kind = "set" /\ writes[i].nonce = n
        THEN LET i == CHOOSE k \in 1..Len(writes) :
                          /\ writes[k].kind = "set" /\ writes[k].nonce = n
                          /\ \A m \in k+1..Len(writes) :
                                ~(writes[m].kind = "set" /\ writes[m].nonce = n)
             IN  writes[i].doc
        ELSE ch[n]]

\* The pending reports a committed transaction creates.
CreatedReportsNone(writes) == <<>>

RECURSIVE CreatedReports(_)
CreatedReports(writes) ==
    IF writes = <<>> THEN <<>>
    ELSE IF writes[1].kind = "create"
         THEN <<writes[1].doc>> \o CreatedReports(Tail(writes))
    ELSE CreatedReports(Tail(writes))

-----------------------------------------------------------------------------
(* Initial state.                                                          *)

NoHist == [exists |-> FALSE, consumed |-> FALSE, expired |-> FALSE,
           overlap |-> FALSE, txnErr |-> Nil, committed |-> FALSE]

NoCall == [ctx |-> Background, clock |-> [fake |-> FALSE, d |-> 0],
           nonce |-> 0, solution |-> 0, data |-> ""]

Init ==
    /\ challenges = [n \in Nonces |-> Nil]
    /\ pending_reports = <<>>
    /\ sysTime = 0
    /\ pc = [r \in Requests |-> "idle"]
    /\ call = [r \in Requests |-> NoCall]
    /\ txn = [r \in Requests |-> NoTxn]
    /\ result = [r \in Requests |-> Nil]
    /\ hist = [r \in Requests |-> NoHist]
    /\ op = "none"
    /\ arg = Nil
    /\ ret = Nil

\* No request has been made and nothing is stored yet.
Untouched ==
    /\ \A r \in Requests : pc[r] = "idle"
    /\ \A n \in Nonces : challenges[n] = Nil
    /\ sysTime = 0

-----------------------------------------------------------------------------
(* The clock, the issuer, and report submission inside RunTransaction.     *)

\* The system clock advances.
Tick ==
    /\ op = "none"
    /\ sysTime < MaxTime
    /\ sysTime' = sysTime + 1
    /\ UNCHANGED <<challenges, pending_reports, pc, call, txn, result, hist>>
    /\ UNCHANGED utilVars

\* IssueChallenge(): a fresh nonce, the configured work factor, the validity
\* window counted from the current time; nothing is issued when the store
\* fails to persist it.
IssueChallenge(faults) ==
    /\ op = "none"
    /\ \E n \in Nonces, c \in Clocks, out \in {Nil} \cup (faults \cap {Unavailable}) :
          /\ challenges[n] = Nil
          /\ LET issued == Now(ContextOf(c), sysTime)
                 doc == [nonce |-> n, work_factor |-> WorkFactor,
                         issued_at |-> issued,
                         expires_at |-> issued + ValidityWindow,
                         consumed |-> FALSE, version |-> 1]
             IN  challenges' = IF out = Nil THEN [challenges EXCEPT ![n] = doc]
                               ELSE challenges
    /\ UNCHANGED <<pending_reports, sysTime, pc, call, txn, result, hist>>
    /\ UNCHANGED utilVars

\* Whether a request is inside RunTransaction.
Running(r) == pc[r] \notin {"idle", "done"}

\* A request calls RunTransaction with the submission as f.
StartCall(r) ==
    /\ op = "none"
    /\ pc[r] = "idle"
    /\ \E c \in Clocks, n \in Nonces, sn \in SolutionNonces, d \in ReportData :
          /\ call' = [call EXCEPT ![r] =
                         [ctx |-> ContextOf(c), clock |-> c,
                          nonce |-> n, solution |-> sn, data |-> d]]
          /\ hist' = [q \in Requests |->
                         IF q = r
                         THEN [exists |-> challenges[n] # Nil,
                               consumed |-> challenges[n] # Nil
                                            /\ challenges[n].consumed,
                               expired |-> challenges[n] # Nil
                                           /\ ClockReading(c, sysTime)
                                                  > challenges[n].expires_at,
                               overlap |-> \E o \in Requests \ {r} : Running(o),
                               txnErr |-> Nil, committed |-> FALSE]
                         ELSE IF Running(q)
                         THEN [hist[q] EXCEPT !.overlap = TRUE]
                         ELSE hist[q]]
    /\ pc' = [pc EXCEPT ![r] = "begin"]
    /\ txn' = [txn EXCEPT ![r] = NoTxn]
    /\ result' = [result EXCEPT ![r] = Nil]
    /\ UNCHANGED <<challenges, pending_reports, sysTime>>
    /\ UNCHANGED utilVars

\* c.RunTransaction begins an attempt: BeginTransaction.
Begin(r, faults) ==
    /\ pc[r] = "begin"
    /\ \E out \in {Nil} \cup (faults \cap {Unavailable, Canceled}) :
          IF out = Nil
          THEN /\ txn' = [txn EXCEPT ![r] =
                             [NoTxn EXCEPT !.attempt = txn[r].attempt + 1]]
               /\ pc' = [pc EXCEPT ![r] = "get"]
               /\ UNCHANGED <<result, hist>>
          ELSE Return(r, out, FALSE)
    /\ UNCHANGED <<challenges, pending_reports, sysTime, call>>
    /\ UNCHANGED utilVars

\* f, step 1: read the challenge inside the transaction; f fails with the
\* converted store error, and c.RunTransaction rolls back and returns it.
Get(r, faults) ==
    /\ pc[r] = "get"
    /\ \E out \in {Nil} \cup (faults \cap {Unavailable, Canceled}) :
          LET doc == challenges[call[r].nonce]
              err == IF out # Nil THEN out
                     ELSE IF doc = Nil THEN GrpcError("NotFound")
                     ELSE Nil
          IN  IF err # Nil
              THEN Return(r, FirestoreToStatusError(err), FALSE)
              ELSE /\ txn' = [txn EXCEPT ![r].snap = doc]
                   /\ pc' = [pc EXCEPT ![r] = "check"]
                   /\ UNCHANGED <<result, hist>>
    /\ UNCHANGED <<challenges, pending_reports, sysTime, call>>
    /\ UNCHANGED utilVars

\* The error of f's steps 2 to 4 on the challenge as read, nil when it passes.
CheckChallenge(doc, now, sn) ==
    IF doc.consumed THEN AlreadyUsedError
    ELSE IF now > doc.expires_at THEN ExpiredError
    ELSE IF ~Verify(doc, sn) THEN InvalidProofError
    ELSE Nil

\* f, steps 2 to 4: consumed, expired, proof of work.
Check(r) ==
    /\ pc[r] = "check"
    /\ LET now == Now(call[r].ctx, sysTime)
           err == CheckChallenge(txn[r].snap, now, call[r].solution)
       IN  IF err # Nil
           THEN Return(r, err, FALSE)
           ELSE /\ pc' = [pc EXCEPT ![r] = "write"]
                /\ UNCHANGED <<result, hist, txn>>
    /\ UNCHANGED <<challenges, pending_reports, sysTime, call>>
    /\ UNCHANGED utilVars

\* f, step 5: mark the challenge consumed and create the PendingReport; the
\* transaction buffers both writes, and f returns nil.
Write(r) ==
    /\ pc[r] = "write"
    /\ LET now == Now(call[r].ctx, sysTime)
           snap == txn[r].snap
       IN  txn' = [txn EXCEPT
                     ![r].writes =
                        << [kind |-> "set", nonce |-> snap.nonce,
                            doc |-> [snap EXCEPT !.consumed = TRUE,
                                                 !.version = snap.version + 1]],
                           [kind |-> "create",
                            doc |-> [challenge_ref |-> snap.nonce,
                                     committed_at |-> now,
                                     data |-> call[r].data]] >>]
    /\ pc' = [pc EXCEPT ![r] = "commit"]
    /\ UNCHANGED <<challenges, pending_reports, sysTime, call, result, hist>>
    /\ UNCHANGED utilVars

\* c.RunTransaction commits. The store answers Aborted when a document the
\* transaction read has changed since; a commit applies every buffered write
\* or none. After Aborted the client backs off and runs f again, up to
\* MaxAttempts attempts; the back-off ends early when the context is cancelled.
Commit(r, faults) ==
    /\ pc[r] = "commit"
    /\ LET conflict == challenges[call[r].nonce] # txn[r].snap
       IN  \E out \in {Nil, Aborted} \cup faults :
             /\ conflict => out # Nil
             /\ out = Aborted => (conflict \/ Aborted \in faults)
             /\ IF out = Nil
                THEN /\ challenges' = ApplyChallengeWrites(challenges, txn[r].writes)
                     /\ pending_reports' =
                            pending_reports \o CreatedReports(txn[r].writes)
                     /\ Return(r, Nil, TRUE)
                ELSE IF out = Aborted /\ txn[r].attempt < MaxAttempts
                THEN /\ \E cerr \in {Nil} \cup (faults \cap {Canceled}) :
                           IF cerr = Nil
                           THEN /\ pc' = [pc EXCEPT ![r] = "begin"]
                                /\ UNCHANGED <<result, hist, txn>>
                           ELSE Return(r, cerr, FALSE)
                     /\ UNCHANGED <<challenges, pending_reports>>
                ELSE /\ Return(r, out, FALSE)
                     /\ UNCHANGED <<challenges, pending_reports>>
    /\ UNCHANGED <<sysTime, call>>
    /\ UNCHANGED utilVars

NextTxn(faults) ==
    \/ Tick
    \/ IssueChallenge(faults)
    \/ \E r \in Requests : StartCall(r)
    \/ \E r \in Requests : Begin(r, faults)
    \/ \E r \in Requests : Get(r, faults)
    \/ \E r \in Requests : Check(r)
    \/ \E r \in Requests : Write(r)
    \/ \E r \in Requests : Commit(r, faults)

-----------------------------------------------------------------------------
(* The operations of the package applied directly to drawn inputs.         *)

GrpcCodes == {"NotFound", "Aborted", "Unavailable", "Canceled", "PermissionDenied"}

\* Errors that are not StatusErrors: of the store, of encoding/json, of io,
\* and of anything else.
PlainErrors ==
    {GrpcError(c) : c \in GrpcCodes}
    \cup {TypedError(t) : t \in JSONErrorTypes \cup {"io.EOF", "io.ErrUnexpectedEOF"}}
    \cup {ErrorsNew("connection refused"), ErrorsNew("not found")}

\* StatusErrors as the package's constructors make them.
MadeStatusErrors ==
    {NewInternalServerError(e) : e \in PlainErrors \cup {Nil}}
    \cup {NewBadRequestError(e) : e \in PlainErrors}
    \cup {NewMethodNotAllowedError(m) : m \in {"PUT", "DELETE"}}
    \cup {NewNotImplementedError, NotFoundError, TeapotError}

ErrorValues == PlainErrors \cup MadeStatusErrors \cup {Nil}

Methods == {"GET", "POST", "PUT", "DELETE", ""}

\* Values of the Forwarded header: up to MaxSegments of these, concatenated.
Segments ==
    { StrProtoEq, <<"P", "r", "o", "t", "o", "=">>,
      StrHttp, StrHttps, <<"H", "T", "T", "P", "S">>,
      <<"h", "t", "t", "p", "long-s">>, <<";">>, <<"x">> }

RECURSIVE Concats(_)
Concats(n) ==
    IF n = 0 THEN {<<>>}
    ELSE LET shorter == Concats(n - 1)
         IN  shorter \cup {s \o g : s \in shorter, g \in Segments}

ForwardedValues == Concats(MaxSegments)

XForwardedProtoValues ==
    { <<>>, StrHttps, StrHttp, <<"H", "T", "T", "P", "S">>,
      <<"H", "t", "t", "p", "s">>, <<"h", "t", "t", "p", "long-s">>,
      <<"h", "t", "t", "p", "s", "x">> }

\* The values stored under one header key: none, one, or that one followed
\* by a second.
ValueLists(values, second) ==
    {<<>>} \cup {<<v>> : v \in values} \cup {<<v, second>> : v \in values}

Headers ==
    { [k \in {"X-Forwarded-Proto", "Forwarded"} |->
          IF k = "Forwarded" THEN f ELSE x] :
      x \in ValueLists(XForwardedProtoValues, StrHttps),
      f \in ValueLists(ForwardedValues, StrProtoEq \o StrHttps) }

TestFirestores == {Nil, [tag |-> "TestFirestore", projectID |-> "emulated"]}

HTTPRequests ==
    [Method : Methods,
     ctx : {Background} \cup
           {WithTestFirestore(Background, t) : t \in TestFirestores \ {Nil}}]

Apply(name, input, output) ==
    /\ op' = name
    /\ arg' = input
    /\ ret' = output
    /\ UNCHANGED txnVars

ApplyCheckHTTPS ==
    /\ op = "none" /\ Untouched
    /\ \E h \in Headers : Apply("checkHTTPS", h, checkHTTPS(h))

ApplyNewContext ==
    /\ op = "none" /\ Untouched
    /\ \E r \in HTTPRequests, env \in {"", "localhost:8081"},
       co \in {Nil, ErrorsNew("no emulator")},
       nc \in {Nil, ErrorsNew("connection refused")} :
        LET out == [clientOption |-> co, newClient |-> nc]
        IN  Apply("NewContext", [r |-> r, env |-> env, out |-> out],
                  NewContext(r, env, out).err)

ApplyValidateRequestMethod ==
    /\ op = "none" /\ Untouched
    /\ \E m \in Methods, method \in Methods :
        LET c == [req |-> [Method |-> m, ctx |-> Background],
                  client |-> "test", ctx |-> Background]
        IN  Apply("ValidateRequestMethod", [c |-> c, method |-> method],
                  ValidateRequestMethod(c, method))

ApplyFirestoreToStatusError ==
    /\ op = "none" /\ Untouched
    /\ \E e \in ErrorValues :
        Apply("FirestoreToStatusError", e, FirestoreToStatusError(e))

ApplyJSONToStatusError ==
    /\ op = "none" /\ Untouched
    /\ \E e \in ErrorValues :
        Apply("JSONToStatusError", e, JSONToStatusError(e))

ApplyNewNotImplementedError ==
    /\ op = "none" /\ Untouched
    /\ Apply("NewNotImplementedError", Nil, NewNotImplementedError)

ApplyNewBadRequestError ==
    /\ op = "none" /\ Untouched
    /\ \E e \in PlainErrors :
        Apply("NewBadRequestError", e, NewBadRequestError(e))

ApplyNewInternalServerError ==
    /\ op = "none" /\ Untouched
    /\ \E e \in PlainErrors \cup {Nil} :
        Apply("NewInternalServerError", e, NewInternalServerError(e))

NextUtil ==
    \/ ApplyCheckHTTPS
    \/ ApplyNewContext
    \/ ApplyValidateRequestMethod
    \/ ApplyFirestoreToStatusError
    \/ ApplyJSONToStatusError
    \/ ApplyNewNotImplementedError
    \/ ApplyNewBadRequestError
    \/ ApplyNewInternalServerError

\* The package while the store answers every call and no context is
\* cancelled: a behaviour applies one operation directly, or runs the issuer
\* and the concurrent submissions, whose transactions conflict, abort and
\* retry.
Next == NextTxn(NoFaults) \/ NextUtil

Spec == Init /\ [][Next]_vars

\* The same with a store that may be unavailable or abort a commit for
\* contention of its own, and contexts that may be cancelled.
NextFaults == NextTxn(Faults) \/ NextUtil

SpecFaults == Init /\ [][NextFaults]_vars

-----------------------------------------------------------------------------
(* Properties.                                                             *)

Done(r) == pc[r] = "done"

ChallengeOf(r) == challenges[call[r].nonce]

\* The request's solution is a valid proof of work for its challenge.
ValidSolution(r) == Verify(ChallengeOf(r), call[r].solution)

\* By the request's own clock its challenge has not expired.
Unexpired(r) ==
    ClockReading(call[r].clock, sysTime) <= ChallengeOf(r).expires_at

\* The number of PendingReports that reference challenge n.
ReportsFor(n) ==
    Cardinality({i \in 1..Len(pending_reports) :
                    pending_reports[i].challenge_ref = n})

IsInternal(e) == e # Nil /\ HTTPStatusCode(e) = StatusInternalServerError

\* Two finished calls that ran concurrently against the same challenge,
\* which existed unconsumed when each began and is unexpired for both, each
\* with a valid solution.
Racing(p, q) ==
    /\ p # q
    /\ Done(p) /\ Done(q)
    /\ call[p].nonce = call[q].nonce
    /\ hist[p].exists /\ hist[q].exists
    /\ ~hist[p].consumed /\ ~hist[q].consumed
    /\ hist[p].overlap /\ hist[q].overlap
    /\ ValidSolution(p) /\ ValidSolution(q)
    /\ Unexpired(p) /\ Unexpired(q)

\* C1: of two concurrent SubmitReport calls against the same valid,
\* unconsumed, unexpired challenge with valid solutions, exactly one commits
\* a PendingReport and returns success, and the other fails with the
\* "already used" BadRequest error: never both succeed, never both fail.
C1_ExactlyOneWinner ==
    \A p, q \in Requests :
        Racing(p, q) =>
            /\ \/ (result[p] = Nil /\ result[q] = AlreadyUsedError)
               \/ (result[q] = Nil /\ result[p] = AlreadyUsedError)
            /\ hist[p].committed # hist[q].committed
            /\ hist[p].committed = (result[p] = Nil)
            /\ ReportsFor(call[p].nonce) = 1

\* The loser of the race lost it at commit: it was aborted and ran again.
C1_Witness ==
    \E p, q \in Requests :
        /\ Racing(p, q)
        /\ result[p] = Nil
        /\ result[q] = AlreadyUsedError
        /\ txn[q].attempt = 2

\* C2: a call with a valid solution made before expiry against an issued,
\* unconsumed challenge, with no other call running, succeeds; every call
\* made after a success fails with "already used", whatever its solution and
\* whether or not the challenge has expired.
C2_ReplayRejected ==
    \A r \in Requests :
        Done(r) /\ hist[r].exists =>
            /\ hist[r].consumed => result[r] = AlreadyUsedError
            /\ (~hist[r].consumed /\ ~hist[r].overlap
                  /\ ValidSolution(r) /\ Unexpired(r))
               => (result[r] = Nil /\ hist[r].committed)

\* A replay with an invalid solution after expiry, answered "already used".
C2_Witness ==
    \E r, w \in Requests :
        /\ Done(r) /\ Done(w) /\ r # w
        /\ result[w] = Nil /\ ~hist[w].overlap
        /\ hist[r].consumed
        /\ ~ValidSolution(r) /\ ~Unexpired(r)
        /\ result[r] = AlreadyUsedError

\* C3: in every state, whatever was aborted, failed, cancelled or retried
\* before, a challenge is consumed exactly when one PendingReport references
\* it, no challenge is referenced by two, and no PendingReport references a
\* challenge that is not there.
C3_ConsumedIffOneReport ==
    /\ \A n \in Nonces :
          /\ ReportsFor(n) <= 1
          /\ (challenges[n] # Nil /\ challenges[n].consumed) <=> ReportsFor(n) = 1
    /\ \A i \in 1..Len(pending_reports) :
          pending_reports[i].challenge_ref \in Nonces

\* One call committed after an aborted attempt, the other ran out of attempts.
C3_Witness ==
    \E r, w \in Requests :
        /\ Done(r) /\ Done(w)
        /\ hist[w].committed /\ txn[w].attempt > 1
        /\ hist[r].txnErr = Aborted
        /\ ReportsFor(call[w].nonce) = 1

\* C4: RunTransaction returns nil exactly when the transaction committed,
\* returns the StatusError of f unchanged, and returns an
\* InternalServerError for every other error of the transaction.
C4_RunTransactionResult ==
    \A r \in Requests :
        Done(r) =>
            LET err == hist[r].txnErr
            IN  /\ hist[r].committed => result[r] = Nil
                /\ result[r] = Nil => (hist[r].committed /\ err = Nil)
                /\ IsStatusError(err) => result[r] = err
                /\ (err # Nil /\ ~IsStatusError(err)) =>
                      /\ IsInternal(result[r])
                      /\ result[r].error = err

\* The three kinds at once: retries exhausted by contention, and f's own
\* StatusError passed on.
C4_Witness ==
    \E r, w \in Requests :
        /\ Done(r) /\ Done(w)
        /\ hist[r].txnErr = Aborted /\ txn[r].attempt = MaxAttempts
        /\ IsInternal(result[r])
        /\ hist[w].txnErr = ExpiredError /\ result[w] = ExpiredError

\* Every StatusError some operation has returned in this state.
Returned ==
    ({result[r] : r \in Requests} \cup {ret}) \ {Nil}

GenericView ==
    [code |-> StatusInternalServerError, message |-> "internal server error"]

\* C5: whatever the cause, an internal error shows the caller status 500 and
\* the fixed message "internal server error": internal errors of different
\* causes are indistinguishable by status code and message.
C5_InternalErrorsGeneric ==
    /\ \A e \in Returned : IsInternal(e) => CallerView(e) = GenericView
    /\ \A e1, e2 \in Returned :
          (IsInternal(e1) /\ IsInternal(e2)) => CallerView(e1) = CallerView(e2)
    /\ op = "NewInternalServerError" =>
          (IsInternal(ret) /\ ret.error = arg /\ Message(ret) = "internal server error")

\* Two calls failed inside the store for different reasons.
C5_Witness ==
    \E r, w \in Requests :
        /\ Done(r) /\ Done(w)
        /\ IsInternal(result[r]) /\ IsInternal(result[w])
        /\ result[r].error = Unavailable
        /\ result[w].error = Aborted

\* C6: a call with a valid solution against a challenge that has expired by
\* the call's clock, and that no one else consumes, fails with "expired" and
\* leaves the challenge unconsumed and without PendingReport. The clock is
\* the fake one whenever the context carries one, whatever the system time,
\* and the system's otherwise.
C6_ExpiryByInjectableClock ==
    \A r \in Requests :
        Done(r) /\ hist[r].exists =>
            /\ (hist[r].expired /\ ~hist[r].consumed /\ ValidSolution(r)
                  /\ \A q \in Requests \ {r} : ~hist[q].committed)
               => /\ result[r] = ExpiredError
                  /\ ~ChallengeOf(r).consumed
                  /\ ReportsFor(call[r].nonce) = 0
            /\ (call[r].clock.fake /\ ~hist[r].consumed /\ ~hist[r].overlap
                  /\ ValidSolution(r))
               => /\ (result[r] = ExpiredError)
                        <=> (call[r].clock.d > ChallengeOf(r).expires_at)
                  /\ hist[r].committed =>
                        pending_reports[1].committed_at = call[r].clock.d
            /\ (~call[r].clock.fake /\ result[r] = ExpiredError)
               => sysTime > ChallengeOf(r).expires_at
            /\ (~call[r].clock.fake /\ hist[r].committed)
               => pending_reports[1].committed_at <= sysTime

\* Expired by the fake clock while the system clock says it has not.
C6_Witness ==
    \E r \in Requests :
        /\ Done(r) /\ hist[r].exists /\ hist[r].expired /\ ValidSolution(r)
        /\ call[r].clock.fake
        /\ sysTime <= ChallengeOf(r).expires_at
        /\ result[r] = ExpiredError
        /\ ~ChallengeOf(r).consumed

\* C7 as stated: every StatusError returned carries one of the four classes
\* BadRequest, MethodNotAllowed, NotImplemented, InternalServerError.
C7_FourClasses ==
    \A e \in Returned :
        HTTPStatusCode(e) \in {StatusBadRequest, StatusMethodNotAllowed,
                               StatusNotImplemented, StatusInternalServerError}

\* C7, amended: every StatusError returned carries one of those four classes
\* or 418, and a 418 is the one checkHTTPS makes (or one handed to a
\* conversion, which passes it on).
C7_FiveClasses ==
    /\ \A e \in Returned :
          HTTPStatusCode(e) \in {StatusBadRequest, StatusMethodNotAllowed,
                                 StatusNotImplemented, StatusInternalServerError,
                                 StatusTeapot}
    /\ \A r \in Requests : result[r] # Nil => HTTPStatusCode(result[r]) # StatusTeapot
    /\ (ret # Nil /\ HTTPStatusCode(ret) = StatusTeapot) =>
          \/ op = "checkHTTPS"
          \/ (op \in {"FirestoreToStatusError", "JSONToStatusError"} /\ arg = ret)
    /\ op = "ValidateRequestMethod" /\ ret # Nil =>
          HTTPStatusCode(ret) = StatusMethodNotAllowed
    /\ op = "NewNotImplementedError" => HTTPStatusCode(ret) = StatusNotImplemented

\* checkHTTPS rejected a request with 418.
C7_Witness ==
    /\ op = "checkHTTPS"
    /\ ret # Nil
    /\ HTTPStatusCode(ret) = StatusTeapot

\* C8: FirestoreToStatusError turns a NotFound store error into NotFoundError
\* (400, "not found"), returns a StatusError as it is, so that applying it
\* twice is applying it once, and turns every other error into a 500; the
\* lookup of a challenge that is not there so ends in "not found".
C8_NotFoundIsBadRequest ==
    /\ op = "FirestoreToStatusError" =>
          /\ IsStatusError(arg) => ret = arg
          /\ (~IsStatusError(arg) /\ StatusCode(arg) = "NotFound") =>
                /\ ret = NotFoundError
                /\ CallerView(ret) = [code |-> StatusBadRequest, message |-> "not found"]
          /\ (~IsStatusError(arg) /\ StatusCode(arg) # "NotFound") =>
                (IsInternal(ret) /\ ret.error = arg)
          /\ FirestoreToStatusError(ret) = ret
    /\ \A r \in Requests :
          (Done(r) /\ ChallengeOf(r) = Nil) =>
              /\ result[r] = NotFoundError
              /\ CallerView(result[r]) =
                    [code |-> StatusBadRequest, message |-> "not found"]

\* A submission looked up a challenge that was never issued.
C8_Witness ==
    \E r \in Requests :
        /\ Done(r) /\ ChallengeOf(r) = Nil
        /\ result[r] = NotFoundError
        /\ hist[r].txnErr = NotFoundError

\* C9: ValidateRequestMethod returns nil exactly when the request's method is
\* the expected one, and otherwise a 405 whose message is
\* "unsupported method: " followed by the request's method; nothing stored
\* changes.
C9_MethodNotAllowed ==
    op = "ValidateRequestMethod" =>
        LET m == arg.c.req.Method
        IN  /\ (ret = Nil) <=> (m = arg.method)
            /\ ret # Nil =>
                  CallerView(ret) = [code |-> StatusMethodNotAllowed,
                                     message |-> "unsupported method: " \o m]
            /\ \A n \in Nonces : challenges[n] = Nil
            /\ pending_reports = <<>>

\* A PUT where a POST is expected.
C9_Witness ==
    /\ op = "ValidateRequestMethod"
    /\ arg.c.req.Method = "PUT"
    /\ arg.method = "POST"
    /\ ret # Nil
    /\ Message(ret) = "unsupported method: PUT"

\* Whether s, without regard to case, reads lit from position i on.
ReadsAt(s, i, lit) ==
    /\ i + Len(lit) - 1 <= Len(s)
    /\ ToLower(SubSeq(s, i, i + Len(lit) - 1)) = lit

\* The positions of s where a proto=http or proto=https parameter starts.
ProtoParameters(s) ==
    {i \in 1..Len(s) :
        /\ ReadsAt(s, i, StrProtoEq)
        /\ (ReadsAt(s, i + 6, StrHttps) \/ ReadsAt(s, i + 6, StrHttp))}

\* The scheme of the first such parameter, "" when there is none.
ForwardedProto(s) ==
    IF ProtoParameters(s) = {} THEN <<>>
    ELSE LET i == CHOOSE k \in ProtoParameters(s) :
                     \A j \in ProtoParameters(s) : k <= j
         IN  IF ReadsAt(s, i + 6, StrHttps) THEN StrHttps ELSE StrHttp

\* The scheme a request claims: X-Forwarded-Proto in lower case when it is
\* there, the Forwarded header's proto otherwise.
DerivedScheme(header) ==
    IF HeaderGet(header, "X-Forwarded-Proto") # <<>>
    THEN ToLower(HeaderGet(header, "X-Forwarded-Proto"))
    ELSE ForwardedProto(HeaderGet(header, "Forwarded"))

====
